---- MODULE Spec2Model ----
(***************************************************************************)
(* A model of merge_tables.py: a Streamlit script that is re-run from top  *)
(* to bottom once per user interaction (a "pass").  The state that lives   *)
(* across passes is st.session_state (df1, df2, df3, merged_df_1_2) and    *)
(* the values of the keyed widgets.  Every action below is one user        *)
(* interaction followed by the whole pass it triggers.                     *)
(*                                                                         *)
(* Cells are kept as text, as in the uploaded files; a column carries the  *)
(* dtype the parser infers ("int64", "float64" or "object").  An optional  *)
(* value (a session slot, an uploader) is <<>> for None and <<v>> for v.   *)
(***************************************************************************)
EXTENDS Integers, Sequences, FiniteSets, TLC

\* ------------------------------------------------------------------ bounds
\* the number of passes (user interactions) of a session that is explored
MaxPasses == 9

\* ------------------------------------------------------------- basic values
None == <<>>

Some(v) == <<v>>

NaN == <<"N", "a", "N">>

Hows == {"inner", "left", "right", "outer"}

RECURSIVE SeqToSet(_)
SeqToSet(s) == IF s = <<>> THEN {} ELSE {Head(s)} \cup SeqToSet(Tail(s))

\* str.endswith(suffix) on a name given as a sequence of characters
EndsWith(name, suffix) ==
    /\ Len(name) >= Len(suffix)
    /\ SubSeq(name, Len(name) - Len(suffix) + 1, Len(name)) = suffix

\* --------------------------------------------------------------- the files
\* What the tabular parsers make of a file's bytes: delimited text with a
\* header line and data lines, a spreadsheet with one first sheet, or bytes
\* that no parser accepts.
Digits == {"0", "1", "2", "3", "4", "5", "6", "7", "8", "9"}

IsNumeric(cell) == cell # <<>> /\ \A i \in 1..Len(cell) : cell[i] \in Digits

InferKind(cells) == IF cells # {} /\ \A c \in cells : IsNumeric(c) THEN "int64" ELSE "object"

Delimiter(fmt) == IF fmt = "comma" THEN "," ELSE "\t"

RECURSIVE Join(_, _)
Join(cells, d) ==
    IF cells = <<>> THEN <<>>
    ELSE IF Len(cells) = 1 THEN cells[1]
    ELSE cells[1] \o <<d>> \o Join(Tail(cells), d)

ParseTable(header, lines) ==
    [cols |-> [j \in 1..Len(header) |->
                 [name |-> header[j],
                  kind |-> InferKind({lines[i][j] : i \in 1..Len(lines)})]],
     rows |-> lines]

\* Text split on a delimiter it does not hold: every line is one cell, and the
\* table has the single column named by the whole header line.
OneColumn(content) ==
    LET d == Delimiter(content.fmt)
    IN  ParseTable(<<Join(content.header, d)>>,
                   [i \in 1..Len(content.lines) |-> <<Join(content.lines[i], d)>>])

\* pd.read_csv(uploaded_file, sep=...): a table, or <<>> when the parser raises
read_csv(content, sep) ==
    IF content.fmt = sep THEN Some(ParseTable(content.header, content.lines))
    ELSE IF content.fmt \in {"comma", "tab"} THEN Some(OneColumn(content))
    ELSE None

\* pd.read_excel(buffer): the first sheet, or <<>> when the parser raises
read_excel(content) ==
    IF content.fmt = "excel" THEN Some(ParseTable(content.header, content.lines)) ELSE None

\* load_data with a final branch that tries the comma parser instead of
\* rejecting the name
load_data_fallback(uploaded_file) ==
    LET d == read_csv(uploaded_file.content, "comma")
    IN  [df |-> d, error |-> IF d = None THEN "ParseError" ELSE "none"]

\* load_data: extension dispatch; every exception of a parser is caught
load_data(uploaded_file) ==
    LET n == uploaded_file.name
        parsed(d) == [df |-> d, error |-> IF d = None THEN "ParseError" ELSE "none"]
    IN  IF EndsWith(n, <<".", "c", "s", "v">>)
          THEN parsed(read_csv(uploaded_file.content, "comma"))
        ELSE IF EndsWith(n, <<".", "t", "s", "v">>) \/ EndsWith(n, <<".", "t", "x", "t">>)
          THEN parsed(read_csv(uploaded_file.content, "tab"))
        ELSE IF EndsWith(n, <<".", "x", "l", "s">>) \/ EndsWith(n, <<".", "x", "l", "s", "x">>)
          THEN parsed(read_excel(uploaded_file.content))
        ELSE [df |-> None, error |-> "UnsupportedFormat"]

\* ------------------------------------------------------------ the tables
ColumnNames(t) == [j \in 1..Len(t.cols) |-> t.cols[j].name]

ColIndex(t, name) == CHOOSE j \in 1..Len(t.cols) : t.cols[j].name = name

NumericKinds == {"int64", "float64"}

HasText(t, name) ==
    \E i \in 1..Len(t.rows) : t.rows[i][ColIndex(t, name)] # NaN

\* The key dtype check of the join: a numeric key never joins a key column
\* that holds text.
KeysCompatible(left, right, lk, rk) ==
    LET kl == left.cols[ColIndex(left, lk)].kind
        kr == right.cols[ColIndex(right, rk)].kind
    IN  \/ kl = kr
        \/ kl \in NumericKinds /\ kr \in NumericKinds
        \/ kl = "object" /\ kr \in NumericKinds /\ ~HasText(left, lk)
        \/ kr = "object" /\ kl \in NumericKinds /\ ~HasText(right, rk)

\* the order of characters, and of cells: text by its characters, NaN last
CharOrder == <<"\t", ",", "0", "1", "2", "3", "4", "5", "6", "7", "8", "9", "_",
               "a", "c", "d", "e", "f", "g", "i", "m", "n", "o", "r", "s", "x", "y">>

Rank(ch) == CHOOSE k \in 1..Len(CharOrder) : CharOrder[k] = ch

RECURSIVE TextLess(_, _)
TextLess(a, b) ==
    IF b = <<>> THEN FALSE
    ELSE IF a = <<>> THEN TRUE
    ELSE IF Head(a) # Head(b) THEN Rank(Head(a)) < Rank(Head(b))
    ELSE TextLess(Tail(a), Tail(b))

CellLess(a, b) == a # NaN /\ (b = NaN \/ TextLess(a, b))

RECURSIVE LexLess(_, _)
LexLess(a, b) ==
    IF a = <<>> \/ b = <<>> THEN FALSE
    ELSE IF Head(a) # Head(b) THEN CellLess(Head(a), Head(b))
    ELSE LexLess(Tail(a), Tail(b))

\* stable insertion sort of records with a .key field
RECURSIVE InsertByKey(_, _)
InsertByKey(sorted, e) ==
    IF sorted = <<>> THEN <<e>>
    ELSE IF LexLess(e.key, Head(sorted).key) THEN <<e>> \o sorted
    ELSE <<Head(sorted)>> \o InsertByKey(Tail(sorted), e)

RECURSIVE SortByKey(_)
SortByKey(s) ==
    IF s = <<>> THEN <<>>
    ELSE InsertByKey(SortByKey(SubSeq(s, 1, Len(s) - 1)), s[Len(s)])

RECURSIVE Flatten(_)
Flatten(ss) == IF ss = <<>> THEN <<>> ELSE Head(ss) \o Flatten(Tail(ss))

Indices(n) == [i \in 1..n |-> i]

\* Row l of left and row r of right agree on every key pair (NaN agrees with NaN).
KeysMatch(left, right, left_on, right_on, l, r) ==
    \A i \in 1..Len(left_on) :
        left.rows[l][ColIndex(left, left_on[i])] = right.rows[r][ColIndex(right, right_on[i])]

\* matches[l]: the rows of right that match row l of left, in right's order
MatchTable(left, right, left_on, right_on) ==
    [l \in 1..Len(left.rows) |->
        SelectSeq(Indices(Len(right.rows)),
                  LAMBDA r : KeysMatch(left, right, left_on, right_on, l, r))]

Matched(matches, r) == \E l \in 1..Len(matches) : r \in SeqToSet(matches[l])

InnerPairs(matches) ==
    Flatten([l \in 1..Len(matches) |-> [k \in 1..Len(matches[l]) |-> <<l, matches[l][k]>>]])

LeftPairs(matches) ==
    Flatten([l \in 1..Len(matches) |->
        IF matches[l] = <<>> THEN << <<l, 0>> >>
        ELSE [k \in 1..Len(matches[l]) |-> <<l, matches[l][k]>>]])

RightPairs(matches, nr) ==
    Flatten([r \in 1..nr |->
        IF ~Matched(matches, r) THEN << <<0, r>> >>
        ELSE SelectSeq([l \in 1..Len(matches) |-> <<l, r>>],
                       LAMBDA p : r \in SeqToSet(matches[p[1]]))])

\* an outer join that forgets the unmatched rows of both sides
OuterPairs_noUnmatched(left, right, left_on, right_on, matches) == InnerPairs(matches)

\* how="outer" sorts the result by the join keys
OuterPairs(left, right, left_on, right_on, matches) ==
    LET all == LeftPairs(matches)
               \o SelectSeq([r \in 1..Len(right.rows) |-> <<0, r>>],
                            LAMBDA p : ~Matched(matches, p[2]))
        keyOf(p) == [i \in 1..Len(left_on) |->
                        IF p[1] # 0 THEN left.rows[p[1]][ColIndex(left, left_on[i])]
                        ELSE right.rows[p[2]][ColIndex(right, right_on[i])]]
    IN  [k \in 1..Len(all) |->
            SortByKey([n \in 1..Len(all) |-> [key |-> keyOf(all[n]), pair |-> all[n]]])[k].pair]

\* The row pairs <<l, r>> a join type keeps; 0 stands for "no row on that side".
RowPairs(left, right, left_on, right_on, how, matches) ==
    CASE how = "inner" -> InnerPairs(matches)
      [] how = "left" -> LeftPairs(matches)
      [] how = "right" -> RightPairs(matches, Len(right.rows))
      [] how = "outer" -> OuterPairs(left, right, left_on, right_on, matches)

\* a join that keeps both key columns of a key pair of one name
DropNames_none(left_on, right_on) == {}

\* A key pair of one name gives one column: the right one is dropped.
DropNames(left_on, right_on) == {right_on[i] : i \in {n \in 1..Len(left_on) : left_on[n] = right_on[n]}}

KeptRight(right, dropNames) ==
    SelectSeq(Indices(Len(right.cols)), LAMBDA j : right.cols[j].name \notin dropNames)

Overlap(left, right, keptRight) ==
    SeqToSet(ColumnNames(left)) \cap {right.cols[keptRight[k]].name : k \in 1..Len(keptRight)}

Widen(kind, missing) == IF missing /\ kind = "int64" THEN "float64" ELSE kind

\* The columns of the result: left's, then right's that are kept; a name on
\* both sides gets the side's suffix.
JoinColumns(left, right, dropNames, keptRight, overlap, pairs, suffixes) ==
    [j \in 1..Len(left.cols) |->
        IF left.cols[j].name \in dropNames
          THEN [name |-> left.cols[j].name,
                kind |-> IF left.cols[j].kind = right.cols[ColIndex(right, left.cols[j].name)].kind
                           THEN left.cols[j].kind
                         ELSE IF {left.cols[j].kind,
                                  right.cols[ColIndex(right, left.cols[j].name)].kind}
                                 \subseteq NumericKinds
                           THEN "float64" ELSE "object"]
          ELSE [name |-> IF left.cols[j].name \in overlap
                           THEN left.cols[j].name \o suffixes[1] ELSE left.cols[j].name,
                kind |-> Widen(left.cols[j].kind, \E k \in 1..Len(pairs) : pairs[k][1] = 0)]]
    \o
    [k \in 1..Len(keptRight) |->
        [name |-> IF right.cols[keptRight[k]].name \in overlap
                    THEN right.cols[keptRight[k]].name \o suffixes[2]
                    ELSE right.cols[keptRight[k]].name,
         kind |-> Widen(right.cols[keptRight[k]].kind, \E n \in 1..Len(pairs) : pairs[n][2] = 0)]]

\* The row of the result for the pair p; a side with no row gives NaN, but a
\* shared key column takes the key of the side that has a row.
JoinRow(left, right, dropNames, keptRight, p) ==
    [j \in 1..Len(left.cols) |->
        IF p[1] # 0 THEN left.rows[p[1]][j]
        ELSE IF left.cols[j].name \in dropNames
          THEN right.rows[p[2]][ColIndex(right, left.cols[j].name)]
        ELSE NaN]
    \o
    [k \in 1..Len(keptRight) |-> IF p[2] # 0 THEN right.rows[p[2]][keptRight[k]] ELSE NaN]

JoinFrame(left, right, dropNames, keptRight, cols, pairs) ==
    IF Cardinality({cols[j].name : j \in 1..Len(cols)}) # Len(cols)
      THEN [df |-> None, raised |-> TRUE]
      ELSE [df |-> Some([cols |-> cols,
                         rows |-> [k \in 1..Len(pairs) |->
                                     JoinRow(left, right, dropNames, keptRight, pairs[k])]]),
            raised |-> FALSE]

JoinKept(left, right, dropNames, keptRight, pairs, suffixes) ==
    JoinFrame(left, right, dropNames, keptRight,
              JoinColumns(left, right, dropNames, keptRight,
                          Overlap(left, right, keptRight), pairs, suffixes),
              pairs)

\* pd.merge(left, right, left_on=, right_on=, how=, suffixes=): the joined
\* table, or raised = TRUE where the library raises: key lists of different
\* lengths, a key pair of incompatible dtypes, or a duplicate result column.
pd_merge(left, right, left_on, right_on, how, suffixes) ==
    IF Len(left_on) # Len(right_on)
      THEN [df |-> None, raised |-> TRUE]
    ELSE IF \E i \in 1..Len(left_on) : ~KeysCompatible(left, right, left_on[i], right_on[i])
      THEN [df |-> None, raised |-> TRUE]
    ELSE JoinKept(left, right, DropNames(left_on, right_on),
                  KeptRight(right, DropNames(left_on, right_on)),
                  RowPairs(left, right, left_on, right_on, how,
                           MatchTable(left, right, left_on, right_on)),
                  suffixes)

\* ------------------------------------------------------- the file universe
colId == <<"i", "d">>

colName == <<"n", "a", "m", "e">>

colScore == <<"s", "c", "o", "r", "e">>

FileA == [name |-> <<"a", ".", "c", "s", "v">>,
          content |-> [fmt |-> "comma", header |-> <<colId, colName>>,
                       lines |-> << << <<"1">>, <<"x">> >>, << <<"2">>, <<"y">> >> >>]]

FileB == [name |-> <<"b", ".", "c", "s", "v">>,
          content |-> [fmt |-> "comma", header |-> <<colId, colScore>>,
                       lines |-> << << <<"1">>, <<"3">> >>, << <<"1">>, <<"2">> >>,
                                    << <<"3">>, <<"1">> >> >>]]

FileC == [name |-> <<"c", ".", "t", "s", "v">>,
          content |-> [fmt |-> "tab", header |-> <<colId, colScore>>,
                       lines |-> << << <<"x">>, <<"1">> >>, << <<"1">>, <<"2">> >> >>]]

FileD == [name |-> <<"d", ".", "j", "s", "o", "n">>,
          content |-> [fmt |-> "comma", header |-> <<colId, colName>>,
                       lines |-> << << <<"1">>, <<"x">> >> >>]]

FileE == [name |-> <<"e", ".", "x", "l", "s", "x">>,
          content |-> [fmt |-> "garbage", header |-> <<>>, lines |-> <<>>]]

\* The files a user may upload; an uploader holds a file by its index here.
Files == <<FileA, FileB, FileC, FileD, FileE>>

\* load_data on each file of the universe
Loaded == [f \in DOMAIN Files |-> load_data(Files[f])]

\* ---------------------------------------------------------------- state
VARIABLES
    df1, df2, df3, merged_df_1_2,   \* st.session_state
    file1, file2, file3,            \* the uploaders' values, by widget key
    keys1, keys2, how12,            \* the stage-1 selections, by widget key
    keys_merged, keys3, how3,       \* the stage-2 selections, by widget key
    rendered,                       \* the widgets the last pass put on the page
    pass,                           \* what the last pass did
    last12,                         \* how the latest stage-1 merge attempt ended
    passes                          \* the number of passes of the session

vars == <<df1, df2, df3, merged_df_1_2, file1, file2, file3, keys1, keys2, how12,
          keys_merged, keys3, how3, rendered, pass, last12, passes>>

Widgets == [file1 |-> file1, file2 |-> file2, file3 |-> file3,
            keys1 |-> keys1, keys2 |-> keys2, how12 |-> how12,
            keys_merged |-> keys_merged, keys3 |-> keys3, how3 |-> how3]

suffixes12 == << <<"_", "f", "1">>, <<"_", "f", "2">> >>

suffixes3 == << <<"_", "m", "e", "r", "g", "e", "d">>, <<"_", "f", "3">> >>

\* st.multiselect under a key: the stored selection, or the empty default when
\* the widget is new to the page or its options changed.
multiselect(key, value, oldTable, newTable) ==
    IF key \in rendered /\ oldTable # None
       /\ ColumnNames(oldTable[1]) = ColumnNames(newTable[1])
    THEN value ELSE <<>>

\* st.selectbox under a key: the stored choice, or the first option
selectbox(key, value) == IF key \in rendered THEN value ELSE "inner"

\* A file block of column 1 (lines 94-101 for File 1, 104-111 for File 2): the
\* slot after the block, whether the key selection got bound, and its value.
FileUpload(file, slot, key, value) ==
    LET ld == IF file # None THEN Loaded[file[1]] ELSE [df |-> slot, error |-> "none"]
        bound == file # None /\ ld.df # None
    IN  [df |-> ld.df, error |-> ld.error, bound |-> bound,
         keys |-> IF bound THEN multiselect(key, value, slot, ld.df) ELSE <<>>]

\* a file block that empties the slot when the uploader is empty
FileBlock_clearOnRemove(file, slot, key, value) ==
    IF file = None THEN [df |-> None, error |-> "none", bound |-> FALSE, keys |-> <<>>]
    ELSE FileUpload(file, slot, key, value)

\* the file block as the script runs it
FileBlock(file, slot, key, value) == FileUpload(file, slot, key, value)

\* Merge 1 & 2 Logic (lines 114-140) after the file blocks b1 and b2.
\* `keys_1 and keys_2` reads keys_1, and keys_2 only when keys_1 is truthy; an
\* unbound name read is a NameError that nothing catches.
Merge12Logic(b1, b2, w, click) ==
    LET stage1 == b1.df # None /\ b2.df # None
        nameError == stage1 /\ (~b1.bound \/ (b1.keys # <<>> /\ ~b2.bound))
        offered == stage1 /\ ~nameError /\ b1.keys # <<>> /\ b2.keys # <<>>
        how_merge_1_2 == selectbox("how12", w.how12)
        clicked == offered /\ click = "merge12"
        m == IF clicked
               THEN pd_merge(b1.df[1], b2.df[1], b1.keys, b2.keys, how_merge_1_2, suffixes12)
               ELSE [df |-> None, raised |-> FALSE]
    IN  [uncaught |-> nameError, offered |-> offered, clicked |-> clicked,
         how |-> IF offered THEN how_merge_1_2 ELSE "inner",
         warning |-> offered /\ Len(b1.keys) # Len(b2.keys),
         \* try: the slot takes the result; except: the slot is set to None
         merged |-> IF ~clicked THEN merged_df_1_2
                    ELSE IF m.raised THEN None ELSE m.df,
         raised |-> m.raised]

\* an except branch that leaves the slot as it was
Merge12Block_keepOnError(b1, b2, w, click) ==
    [Merge12Logic(b1, b2, w, click) EXCEPT
        !.merged = IF Merge12Logic(b1, b2, w, click).raised THEN merged_df_1_2 ELSE @]

\* a stage-1 block that drops the stored result when an input table changed
Merge12Block_invalidate(b1, b2, w, click) ==
    [Merge12Logic(b1, b2, w, click) EXCEPT
        !.merged = IF click # "merge12" /\ (b1.df # df1 \/ b2.df # df2) THEN None ELSE @]

\* a stage-1 block that offers the button without looking at the key lists
Merge12Block_noKeyGuard(b1, b2, w, click) ==
    [Merge12Logic(b1, b2, w, click) EXCEPT
        !.offered = b1.df # None /\ b2.df # None /\ ~Merge12Logic(b1, b2, w, click).uncaught]

\* the stage-1 block as the script runs it
Merge12Block(b1, b2, w, click) == Merge12Logic(b1, b2, w, click)

\* Column 2 (lines 143-218) after the stage-1 block m12; nothing of it runs
\* after an uncaught error.  `left` is the left operand line 194 hands the join.
Column2Logic(left, m12, w, click) ==
    LET show3 == ~m12.uncaught /\ m12.merged # None
        file_3 == IF show3 /\ "file3" \in rendered THEN w.file3 ELSE None
        ld == IF show3 /\ file_3 # None THEN Loaded[file_3[1]]
              ELSE [df |-> df3, error |-> "none"]
        stage2 == show3 /\ file_3 # None /\ ld.df # None
        keys_m == IF stage2
                    THEN multiselect("keys_merged", w.keys_merged, merged_df_1_2, m12.merged)
                    ELSE <<>>
        keys_3 == IF stage2 THEN multiselect("keys3", w.keys3, df3, ld.df) ELSE <<>>
        offered == stage2 /\ keys_m # <<>> /\ keys_3 # <<>>
        how_merge_3 == selectbox("how3", w.how3)
        clicked == offered /\ click = "merge3"
        m == IF clicked
               THEN pd_merge(left[1], ld.df[1], keys_m, keys_3, how_merge_3, suffixes3)
               ELSE [df |-> None, raised |-> FALSE]
    IN  [show3 |-> show3, file |-> file_3, df |-> ld.df, error |-> ld.error,
         left |-> left,
         stage2 |-> stage2, keys_merged |-> keys_m, keys3 |-> keys_3,
         offered |-> offered, clicked |-> clicked,
         how |-> IF offered THEN how_merge_3 ELSE "inner",
         warning |-> offered /\ Len(keys_m) # Len(keys_3),
         final_merged_df |-> m.df, raised |-> m.raised]

\* a stage-2 join that takes File 1 as its left operand
Column2Block_leftDf1(m12, w, click) ==
    Column2Logic(IF df1 # None
                    /\ SeqToSet(w.keys_merged) \subseteq SeqToSet(ColumnNames(df1[1]))
                 THEN df1 ELSE m12.merged,
                 m12, w, click)

\* column 2 as the script runs it: the join reads st.session_state.merged_df_1_2
Column2Block(m12, w, click) == Column2Logic(m12.merged, m12, w, click)

\* What a pass shows and does, from its blocks.
PassRecord(b1, b2, m12, c2, click) ==
    LET errs == {[kind |-> b1.error, at |-> "file1"],
                 [kind |-> b2.error, at |-> "file2"],
                 [kind |-> c2.error, at |-> "file3"],
                 [kind |-> IF m12.raised THEN "MergeError" ELSE "none", at |-> "merge12"],
                 [kind |-> IF c2.raised THEN "MergeError" ELSE "none", at |-> "merge3"]}
    IN  [click |-> click,
         held |-> (IF df1 # None THEN {"df1"} ELSE {})
                  \cup (IF df2 # None THEN {"df2"} ELSE {})
                  \cup (IF df3 # None THEN {"df3"} ELSE {})
                  \cup (IF merged_df_1_2 # None THEN {"merged_df_1_2"} ELSE {}),
         errors |-> {e \in errs : e.kind # "none"},
         warnings |-> (IF m12.warning THEN {"merge12"} ELSE {})
                      \cup (IF c2.warning THEN {"merge3"} ELSE {}),
         uncaught |-> m12.uncaught,
         calls |-> (IF m12.clicked
                      THEN {[stage |-> 1, left |-> b1.df, right |-> b2.df,
                             left_on |-> b1.keys, right_on |-> b2.keys,
                             how |-> m12.how, raised |-> m12.raised]}
                      ELSE {})
                   \cup (IF c2.clicked
                      THEN {[stage |-> 2, left |-> c2.left, right |-> c2.df,
                             left_on |-> c2.keys_merged, right_on |-> c2.keys3,
                             how |-> c2.how, raised |-> c2.raised]}
                      ELSE {}),
         final_merged_df |-> c2.final_merged_df]

Page(b1, b2, m12, c2) ==
    {"file1", "file2"}
    \cup (IF b1.bound THEN {"keys1"} ELSE {})
    \cup (IF b2.bound THEN {"keys2"} ELSE {})
    \cup (IF m12.offered THEN {"how12", "btn12"} ELSE {})
    \cup (IF c2.show3 THEN {"file3", "download12"} ELSE {})
    \cup (IF c2.stage2 THEN {"keys_merged", "keys3"} ELSE {})
    \cup (IF c2.offered THEN {"how3", "btn3"} ELSE {})

\* One run of the script, lines 76-218, with the widget values w and the button
\* `click` pressed ("none" when another interaction triggered the pass).
Rerun(w, click) ==
    /\ passes < MaxPasses
    /\ \E b1 \in {FileBlock(w.file1, df1, "keys1", w.keys1)} :
       \E b2 \in {FileBlock(w.file2, df2, "keys2", w.keys2)} :
       \E m12 \in {Merge12Block(b1, b2, w, click)} :
       \E c2 \in {Column2Block(m12, w, click)} :
        /\ passes' = passes + 1
        /\ df1' = b1.df /\ df2' = b2.df /\ df3' = c2.df
        /\ merged_df_1_2' = m12.merged
        /\ file1' = w.file1 /\ file2' = w.file2 /\ file3' = c2.file
        /\ keys1' = b1.keys /\ keys2' = b2.keys /\ how12' = m12.how
        /\ keys_merged' = c2.keys_merged /\ keys3' = c2.keys3 /\ how3' = c2.how
        /\ rendered' = Page(b1, b2, m12, c2)
        /\ pass' = PassRecord(b1, b2, m12, c2, click)
        /\ last12' = IF m12.clicked THEN (IF m12.raised THEN "failed" ELSE "ok")
                     ELSE last12

\* The first pass of a session: lines 76-84 set every slot to None, and every
\* widget holds its default.
Init ==
    /\ df1 = None /\ df2 = None /\ df3 = None /\ merged_df_1_2 = None
    /\ file1 = None /\ file2 = None /\ file3 = None
    /\ keys1 = <<>> /\ keys2 = <<>> /\ how12 = "inner"
    /\ keys_merged = <<>> /\ keys3 = <<>> /\ how3 = "inner"
    /\ rendered = {"file1", "file2"}
    /\ pass = [click |-> "none", held |-> {}, errors |-> {}, warnings |-> {},
               uncaught |-> FALSE, calls |-> {}, final_merged_df |-> None]
    /\ last12 = "none"
    /\ passes = 0

\* ------------------------------------------------------- user interactions
Uploaders == {"file1", "file2", "file3"}

Upload(u, f) ==
    /\ u \in rendered
    /\ Widgets[u] # Some(f)
    /\ Rerun([Widgets EXCEPT ![u] = Some(f)], "none")

Remove(u) ==
    /\ u \in rendered
    /\ Widgets[u] # None
    /\ Rerun([Widgets EXCEPT ![u] = None], "none")

Multiselects == {"keys1", "keys2", "keys_merged", "keys3"}

Options(k) ==
    CASE k = "keys1" -> ColumnNames(df1[1])
      [] k = "keys2" -> ColumnNames(df2[1])
      [] k = "keys_merged" -> ColumnNames(merged_df_1_2[1])
      [] k = "keys3" -> ColumnNames(df3[1])

\* one more option picked in a multiselect
AddKey(k) ==
    /\ k \in rendered
    /\ \E j \in 1..Len(Options(k)) :
        /\ Options(k)[j] \notin SeqToSet(Widgets[k])
        /\ Rerun([Widgets EXCEPT ![k] = Append(@, Options(k)[j])], "none")

\* one picked option removed from a multiselect
RemoveKey(k) ==
    /\ k \in rendered
    /\ \E i \in 1..Len(Widgets[k]) :
        Rerun([Widgets EXCEPT ![k] = SubSeq(@, 1, i - 1) \o SubSeq(@, i + 1, Len(@))], "none")

SelectHow(k, h) ==
    /\ k \in rendered
    /\ Widgets[k] # h
    /\ Rerun([Widgets EXCEPT ![k] = h], "none")

ClickMerge12 ==
    /\ "btn12" \in rendered
    /\ Rerun(Widgets, "merge12")

ClickMerge3 ==
    /\ "btn3" \in rendered
    /\ Rerun(Widgets, "merge3")

ClickDownload ==
    /\ "download12" \in rendered
    /\ Rerun(Widgets, "none")

Next ==
    \/ \E u \in Uploaders, f \in DOMAIN Files : Upload(u, f)
    \/ \E u \in Uploaders : Remove(u)
    \/ \E k \in Multiselects : AddKey(k)
    \/ \E k \in Multiselects : RemoveKey(k)
    \/ \E k \in {"how12", "how3"}, h \in Hows : SelectHow(k, h)
    \/ ClickMerge12
    \/ ClickMerge3
    \/ ClickDownload

Spec == Init /\ [][Next]_vars

\* ---------------------------------------------------------------- claims
Slot(u) ==
    CASE u = "file1" -> df1
      [] u = "file2" -> df2
      [] u = "file3" -> df3

SlotName(u) ==
    CASE u = "file1" -> "df1"
      [] u = "file2" -> "df2"
      [] u = "file3" -> "df3"

SupportedSuffixes ==
    {<<".", "c", "s", "v">>, <<".", "t", "s", "v">>, <<".", "t", "x", "t">>,
     <<".", "x", "l", "s">>, <<".", "x", "l", "s", "x">>}

UnsupportedName(n) == \A e \in SupportedSuffixes : ~EndsWith(n, e)

Reported(kind, at) == [kind |-> kind, at |-> at] \in pass.errors

Stage1Calls == {c \in pass.calls : c.stage = 1}

Stage2Calls == {c \in pass.calls : c.stage = 2}

\* C1: while an uploader holds a file whose name ends in none of the supported
\* suffixes, the pass reports UnsupportedFormat for it and its slot holds no
\* table after the pass.
C1_UnsupportedUpload ==
    \A u \in Uploaders :
        (Widgets[u] # None /\ UnsupportedName(Files[Widgets[u][1]].name))
            => (Reported("UnsupportedFormat", u) /\ Slot(u) = None)

\* an unsupported upload into a slot that held a table before the pass
C1_Witness ==
    \E u \in Uploaders :
        /\ Widgets[u] # None /\ UnsupportedName(Files[Widgets[u][1]].name)
        /\ SlotName(u) \in pass.held
        /\ Slot(u) = None

\* C2: a stage-1 merge whose join raises is caught and reported as a
\* MergeError, and the intermediate slot is empty after the pass.
C2_FailedMerge12 ==
    \A c \in Stage1Calls :
        c.raised => /\ Reported("MergeError", "merge12")
                    /\ ~pass.uncaught
                    /\ merged_df_1_2 = None

\* a failed stage-1 merge in a session whose slot held an earlier result
C2_Witness ==
    /\ \E c \in Stage1Calls : c.raised
    /\ "merged_df_1_2" \in pass.held
    /\ merged_df_1_2 = None

\* C3: the intermediate slot changes only in a pass triggered by the stage-1
\* merge button; uploads and re-uploads leave it as it is.
C3_StaleMergeRetained ==
    [][merged_df_1_2' # merged_df_1_2 => pass'.click = "merge12"]_vars

\* a merge result that outlives a failed re-upload of File 1
C3_Witness ==
    /\ merged_df_1_2 # None
    /\ file1 # None /\ df1 = None
    /\ pass.click = "none"

\* C4 (as claimed): a stage-1 merge with non-empty key lists of different
\* lengths joins on the key pairs up to the shorter list and stores the result.
PairedUpTo(c) ==
    LET n == IF Len(c.left_on) < Len(c.right_on) THEN Len(c.left_on) ELSE Len(c.right_on)
    IN  pd_merge(c.left[1], c.right[1], SubSeq(c.left_on, 1, n), SubSeq(c.right_on, 1, n),
                 c.how, suffixes12)

C4_PositionalPairing ==
    \A c \in Stage1Calls :
        Len(c.left_on) # Len(c.right_on) => merged_df_1_2 = PairedUpTo(c).df

SlotByName(n) ==
    CASE n = "df1" -> df1
      [] n = "df2" -> df2
      [] n = "df3" -> df3
      [] n = "merged_df_1_2" -> merged_df_1_2

\* C5 (as claimed): a slot that held a table before a pass holds one after it.
C5_SlotsNeverEmptied ==
    \A n \in pass.held : SlotByName(n) # None

FailureReportedFor(n) ==
    CASE n = "df1" -> \E e \in pass.errors : e.at = "file1"
      [] n = "df2" -> \E e \in pass.errors : e.at = "file2"
      [] n = "df3" -> \E e \in pass.errors : e.at = "file3"
      [] n = "merged_df_1_2" -> Reported("MergeError", "merge12")

\* C5 (amended): a slot that held a table is emptied only by a pass in which
\* the load into that slot fails or, for the intermediate slot, the stage-1
\* merge fails; no other interaction empties a slot.
C5_EmptiedOnlyByFailure ==
    \A n \in pass.held : SlotByName(n) = None => FailureReportedFor(n)

\* a table slot emptied by a failed upload
C5_Witness ==
    /\ "df2" \in pass.held /\ df2 = None
    /\ "df1" \in pass.held /\ df1 # None

RowCount(m) == Len(m.df[1].rows)

RowCountsOrdered(left, right, left_on, right_on, suffixes) ==
    LET inner == pd_merge(left, right, left_on, right_on, "inner", suffixes)
        leftj == pd_merge(left, right, left_on, right_on, "left", suffixes)
        outer == pd_merge(left, right, left_on, right_on, "outer", suffixes)
    IN  (~inner.raised /\ ~leftj.raised /\ ~outer.raised)
            => (RowCount(outer) >= RowCount(leftj) /\ RowCount(leftj) >= RowCount(inner))

\* C6: wherever a merge button is offered, the join it would make on the
\* selected keys has at least as many rows with how=outer as with how=left,
\* and at least as many with how=left as with how=inner.
C6_JoinOrdering ==
    /\ "btn12" \in rendered =>
         RowCountsOrdered(df1[1], df2[1], keys1, keys2, suffixes12)
    /\ "btn3" \in rendered =>
         RowCountsOrdered(merged_df_1_2[1], df3[1], keys_merged, keys3, suffixes3)

MoreRows(left, right, left_on, right_on, suffixes, wide, narrow) ==
    /\ ~pd_merge(left, right, left_on, right_on, wide, suffixes).raised
    /\ RowCount(pd_merge(left, right, left_on, right_on, wide, suffixes))
         > RowCount(pd_merge(left, right, left_on, right_on, narrow, suffixes))

\* both buttons offered, with strictly more rows for the wider join types
C6_Witness ==
    /\ "btn12" \in rendered /\ "btn3" \in rendered
    /\ MoreRows(df1[1], df2[1], keys1, keys2, suffixes12, "outer", "left")
    /\ MoreRows(df1[1], df2[1], keys1, keys2, suffixes12, "left", "inner")
    /\ MoreRows(merged_df_1_2[1], df3[1], keys_merged, keys3, suffixes3, "outer", "inner")

\* the stage-1 calls of C7: {id, name} with {id, score}, inner, on id
IdNameScoreCalls ==
    {c \in Stage1Calls :
        /\ c.how = "inner"
        /\ c.left_on = <<colId>> /\ c.right_on = <<colId>>
        /\ SeqToSet(ColumnNames(c.left[1])) = {colId, colName}
        /\ SeqToSet(ColumnNames(c.right[1])) = {colId, colScore}}

Cell(t, i, name) == t.rows[i][ColIndex(t, name)]

EqualIdPairs(c) ==
    {p \in (1..Len(c.left[1].rows)) \X (1..Len(c.right[1].rows)) :
        Cell(c.left[1], p[1], colId) = Cell(c.right[1], p[2], colId)}

\* the stored table has the columns id, name, score and one row per pair of
\* input rows with equal id
InnerOnIdStored(c) ==
    /\ merged_df_1_2 # None
    /\ Len(merged_df_1_2[1].cols) = 3
    /\ SeqToSet(ColumnNames(merged_df_1_2[1])) = {colId, colName, colScore}
    /\ Len(merged_df_1_2[1].rows) = Cardinality(EqualIdPairs(c))
    /\ \A p \in EqualIdPairs(c) :
         \E i \in 1..Len(merged_df_1_2[1].rows) :
            /\ Cell(merged_df_1_2[1], i, colId) = Cell(c.left[1], p[1], colId)
            /\ Cell(merged_df_1_2[1], i, colName) = Cell(c.left[1], p[1], colName)
            /\ Cell(merged_df_1_2[1], i, colScore) = Cell(c.right[1], p[2], colScore)
    /\ \A i \in 1..Len(merged_df_1_2[1].rows) :
         \E p \in EqualIdPairs(c) :
            Cell(merged_df_1_2[1], i, colId) = Cell(c.left[1], p[1], colId)

\* C7 (as claimed): every such merge stores the joined table.
C7_InnerOnId ==
    \A c \in IdNameScoreCalls : InnerOnIdStored(c)

SameIdKind(c) ==
    c.left[1].cols[ColIndex(c.left[1], colId)].kind
        = c.right[1].cols[ColIndex(c.right[1], colId)].kind

\* C7 (amended): such a merge stores the joined table when the two id columns
\* have the same dtype; when one is numeric and the other text the join raises,
\* a MergeError is reported and the slot is empty.
C7_InnerOnIdSameKind ==
    \A c \in IdNameScoreCalls :
        IF SameIdKind(c) THEN InnerOnIdStored(c)
        ELSE Reported("MergeError", "merge12") /\ merged_df_1_2 = None

\* an inner merge on id that stored a table with rows
C7_Witness ==
    \E c \in IdNameScoreCalls :
        /\ SameIdKind(c)
        /\ merged_df_1_2 # None
        /\ Len(merged_df_1_2[1].rows) >= 2
        /\ Cardinality(EqualIdPairs(c)) < Len(c.left[1].rows) * Len(c.right[1].rows)

\* C8: a stage-2 merge is invoked only in a pass where the intermediate slot
\* and the table3 slot hold tables, the latest stage-1 merge attempt
\* succeeded, and its operands are the stored intermediate result and table3.
C8_StageOrdering ==
    \A c \in Stage2Calls :
        /\ merged_df_1_2 # None /\ df3 # None
        /\ last12 = "ok"
        /\ c.left = merged_df_1_2
        /\ c.right = df3

\* a stage-2 merge was invoked
C8_Witness ==
    \E c \in Stage2Calls : ~c.raised /\ pass.final_merged_df # None

\* C9: the join is never invoked with an empty key list or a missing table;
\* with an empty key list on either side of a stage, that stage's merge
\* button is not offered, the stage invokes no join and produces no result,
\* and the pass leaves the intermediate slot as it was.
C9_GuardState ==
    /\ \A c \in pass.calls :
         /\ c.left_on # <<>> /\ c.right_on # <<>>
         /\ c.left # None /\ c.right # None
    /\ (keys1 = <<>> \/ keys2 = <<>>) => ("btn12" \notin rendered /\ Stage1Calls = {})
    /\ (keys_merged = <<>> \/ keys3 = <<>>) =>
         /\ "btn3" \notin rendered /\ Stage2Calls = {}
         /\ pass.final_merged_df = None

C9_MergeGuard ==
    /\ []C9_GuardState
    /\ [][(keys1' = <<>> \/ keys2' = <<>>) => merged_df_1_2' = merged_df_1_2]_vars

\* both tables loaded, one key list empty, no button
C9_Witness ==
    /\ df1 # None /\ df2 # None
    /\ keys1 # <<>> /\ keys2 = <<>>
    /\ "btn12" \notin rendered
    /\ merged_df_1_2 # None

\* C10 (as claimed): with both table slots filled, the pass reads bound key
\* selections and does not end in an uncaught error.
C10_KeysBound ==
    (df1 # None /\ df2 # None) => ~pass.uncaught

====
